---- MODULE Spec2Model ----
(***************************************************************************)
(* geokde: kernel density estimation of weighted, variable-radius point    *)
(* observations on a regular grid (src/geokde/geokde.py, _utils.py,        *)
(* _kernels.py).                                                           *)
(*                                                                         *)
(* Numbers.  The program computes with Python/NumPy numbers.  The model    *)
(* computes with exact rationals <<n, d>> (d > 0, lowest terms), so every  *)
(* equality below is an equality of real arithmetic; float64 rounding of   *)
(* the individual operations is not modelled.  round() is Python's: to     *)
(* the nearest integer, ties to the even one.  The distance               *)
(* sqrt(dx^2 + dy^2) is carried as its square; the kernels only use        *)
(* distance < radius and (distance / radius)^2, both of which are exact    *)
(* functions of the square.  The scaled kernels carry the factor 1/pi      *)
(* symbolically: a scaled value c stands for c / pi.                       *)
(***************************************************************************)
EXTENDS Integers, Sequences, FiniteSets, TLC

VARIABLES
    points,        \* the GeoDataFrame handed to kde
    args,          \* kde's arguments radius, resolution, kernel, weight, scale
    pc,            \* position inside kde
    error,         \* the exception kde raised, or NoError
    radius,        \* kde's local radius after validate_transform (ndarray)
    weight,        \* kde's local weight after validate_transform (ndarray)
    bounds,        \* kde's local bounds
    array,         \* kde's local array (the grid)
    array_points,  \* get_points' result
    idx,           \* position of calculate_kde's loop over array_points
    probe          \* a direct call of the kernel functions (test_kernels.py)

vars == <<points, args, pc, error, radius, weight, bounds, array,
          array_points, idx, probe>>

---------------------------------------------------------------------------
(* Bounds of the model *)

MaxPoints == 2
MaxCoord == 1
MaxRadius == 3
MaxWeight == 2
MaxDistance == 3

---------------------------------------------------------------------------
(* Exact arithmetic *)

Abs(n) == IF n < 0 THEN -n ELSE n

RECURSIVE Gcd(_, _)
Gcd(a, b) == IF b = 0 THEN a ELSE Gcd(b, a % b)

\* n/d in lowest terms with a positive denominator (d # 0)
Q(n, d) ==
    LET g == Gcd(Abs(n), Abs(d))
        s == IF d < 0 THEN -1 ELSE 1
    IN  <<(s * n) \div g, (s * d) \div g>>

FromInt(n) == <<n, 1>>
Zero == <<0, 1>>
One == <<1, 1>>
Half == <<1, 2>>

RAdd(a, b) ==
    LET g == Gcd(a[2], b[2])
    IN  Q(a[1] * (b[2] \div g) + b[1] * (a[2] \div g), (a[2] \div g) * b[2])
RNeg(a) == <<-a[1], a[2]>>
RSub(a, b) == RAdd(a, RNeg(b))
RMul(a, b) ==
    LET g1 == Gcd(Abs(a[1]), b[2])
        g2 == Gcd(Abs(b[1]), a[2])
    IN  Q((a[1] \div g1) * (b[1] \div g2), (a[2] \div g2) * (b[2] \div g1))
\* a / b for b # 0
RDiv(a, b) == RMul(a, Q(b[2], b[1]))
RLt(a, b) ==
    LET g == Gcd(a[2], b[2])
    IN  a[1] * (b[2] \div g) < b[1] * (a[2] \div g)
RLe(a, b) ==
    LET g == Gcd(a[2], b[2])
    IN  a[1] * (b[2] \div g) <= b[1] * (a[2] \div g)

RECURSIVE RPow(_, _)
RPow(a, k) == IF k = 0 THEN One ELSE RMul(a, RPow(a, k - 1))

Floor(a) == a[1] \div a[2]

\* Python's round(): nearest integer, ties to the even integer
Round(a) ==
    LET f == Floor(a)
        r2 == 2 * (a[1] - f * a[2])
    IN  IF r2 < a[2] THEN f
        ELSE IF r2 > a[2] THEN f + 1
        ELSE IF f % 2 = 0 THEN f ELSE f + 1

---------------------------------------------------------------------------
(* _kernels.py.  distance2 is the square of the distance argument. *)

VALID_KERNELS == <<"epanechnikov", "quartic", "triweight">>

\* `distance < radius` for distance = sqrt(distance2) >= 0
DistanceLt(distance2, r) == RLt(Zero, r) /\ RLt(distance2, RMul(r, r))

\* mutant: a sign slip, 1 + pow(distance / radius, 2)
ShapeSignSlip(distance2, r) == RAdd(One, RDiv(distance2, RMul(r, r)))

\* 1 - pow(distance / radius, 2)
Shape(distance2, r) == RSub(One, RDiv(distance2, RMul(r, r)))

\* mutant: the compact-support test is missing
quartic_raw_unguarded(distance2, r, w) ==
    IF r = Zero THEN Zero ELSE RMul(w, RPow(Shape(distance2, r), 2))

quartic_raw(distance2, r, w) ==
    IF DistanceLt(distance2, r)
    THEN RMul(w, RPow(Shape(distance2, r), 2))
    ELSE Zero

\* norm_const = 116 / (5 * pi * radius^2), the factor 1/pi kept symbolic
quartic_scaled(distance2, r, w) ==
    IF DistanceLt(distance2, r)
    THEN LET norm_const == RDiv(FromInt(116), RMul(FromInt(5), RPow(r, 2)))
         IN  RMul(w, RMul(RMul(norm_const, Q(15, 16)),
                          RPow(Shape(distance2, r), 2)))
    ELSE Zero

epanechnikov_raw(distance2, r, w) ==
    IF DistanceLt(distance2, r)
    THEN RMul(w, Shape(distance2, r))
    ELSE Zero

epanechnikov_scaled(distance2, r, w) ==
    IF DistanceLt(distance2, r)
    THEN LET norm_const == RDiv(FromInt(8), RMul(FromInt(3), RPow(r, 2)))
         IN  RMul(w, RMul(RMul(norm_const, Q(3, 4)), Shape(distance2, r)))
    ELSE Zero

triweight_raw(distance2, r, w) ==
    IF DistanceLt(distance2, r)
    THEN RMul(w, RPow(Shape(distance2, r), 3))
    ELSE Zero

triweight_scaled(distance2, r, w) ==
    IF DistanceLt(distance2, r)
    THEN LET norm_const == RDiv(FromInt(128), RMul(FromInt(35), RPow(r, 2)))
         IN  RMul(w, RMul(RMul(norm_const, Q(35, 32)),
                          RPow(Shape(distance2, r), 3)))
    ELSE Zero

\* calculate_kde's kernel_vfuncs[kernel], applied
kernel_vfunc(k, scaled, distance2, r, w) ==
    CASE k = "epanechnikov" ->
            IF scaled THEN epanechnikov_scaled(distance2, r, w)
                      ELSE epanechnikov_raw(distance2, r, w)
      [] k = "quartic" ->
            IF scaled THEN quartic_scaled(distance2, r, w)
                      ELSE quartic_raw(distance2, r, w)
      [] k = "triweight" ->
            IF scaled THEN triweight_scaled(distance2, r, w)
                      ELSE triweight_raw(distance2, r, w)

---------------------------------------------------------------------------
(* Python values handed to kde: a number, a string, a bool or None *)

PyNum(n) == [t |-> "num", n |-> n, s |-> ""]
PyStr(s) == [t |-> "str", n |-> 0, s |-> s]
PyBool(b) == [t |-> "bool", n |-> IF b THEN 1 ELSE 0, s |-> ""]
PyNone == [t |-> "none", n |-> 0, s |-> ""]

\* isinstance(v, (int, float)); bool is a subclass of int
IsNumber(v) == v.t \in {"num", "bool"}
\* isinstance(v, bool)
IsBool(v) == v.t = "bool"

NoError == [type |-> "", msg |-> ""]
TypeError(m) == [type |-> "TypeError", msg |-> m]
ValueError(m) == [type |-> "ValueError", msg |-> m]
OverflowError(m) == [type |-> "OverflowError", msg |-> m]

Ok(v) == [ok |-> TRUE, value |-> v, error |-> NoError]
Raise(e) == [ok |-> FALSE, value |-> <<>>, error |-> e]

SeqMax(s) == CHOOSE m \in {s[i] : i \in DOMAIN s} : \A i \in DOMAIN s : s[i] <= m
SeqMin(s) == CHOOSE m \in {s[i] : i \in DOMAIN s} : \A i \in DOMAIN s : m <= s[i]

---------------------------------------------------------------------------
(* _utils.py *)

\* mutant: the scalar is preferred to the column of the same name
validate_transform_scalar_first(arg, arg_name, pts) ==
    IF IsNumber(arg) THEN Ok([i \in 1..Len(pts.x) |-> arg.n])
    ELSE IF arg \in DOMAIN pts.columns
    THEN LET col == pts.columns[arg]
         IN  IF ~col.numeric
             THEN Raise(TypeError(arg_name \o " column must be numeric dtype."))
             ELSE IF \E i \in DOMAIN col.isnull : col.isnull[i]
             THEN Raise(ValueError(arg_name \o " column must be complete."))
             ELSE Ok(col.values)
    ELSE Raise(ValueError(arg_name \o " must correspond to a GeoDataFrame column or be int or float."))

validate_transform(arg, arg_name, pts) ==
    IF arg \in DOMAIN pts.columns
    THEN LET col == pts.columns[arg]
         IN  IF ~col.numeric
             THEN Raise(TypeError(arg_name \o " column must be numeric dtype."))
             ELSE IF \E i \in DOMAIN col.isnull : col.isnull[i]
             THEN Raise(ValueError(arg_name \o " column must be complete."))
             ELSE Ok(col.values)
    ELSE IF IsNumber(arg)
    THEN Ok([i \in 1..Len(pts.x) |-> arg.n])
    ELSE Raise(ValueError(arg_name \o " must correspond to a GeoDataFrame column or be int or float."))

\* points.total_bounds: the envelope (minx, miny, maxx, maxy) of the points
total_bounds(pts) == <<SeqMin(pts.x), SeqMin(pts.y), SeqMax(pts.x), SeqMax(pts.y)>>

adjust_bounds(b, r) == <<b[1] - r, b[2] - r, b[3] + r, b[4] + r>>

NoArray == [allocated |-> FALSE, height |-> 0, width |-> 0, cells |-> <<>>]

\* np.full((height, width), 0.0)
Full(height, width) ==
    [allocated |-> TRUE, height |-> height, width |-> width,
     cells |-> [c \in (0..height - 1) \X (0..width - 1) |-> Zero]]

\* mutant: the cell counts are truncated instead of rounded
create_array_floor(minx, miny, maxx, maxy, res) ==
    IF res = 0
    THEN Raise(ValueError("cannot convert float NaN to integer"))
    ELSE LET width == Floor(Q(maxx - minx, res))
             height == Floor(Q(maxy - miny, res))
         IN  IF width < 0 \/ height < 0
             THEN Raise(ValueError("negative dimensions are not allowed"))
             ELSE Ok(Full(height, width))

\* A division of a NumPy float by zero gives inf or nan, and round() of
\* those raises OverflowError or ValueError; np.full refuses a negative
\* dimension with ValueError.
create_array(minx, miny, maxx, maxy, res) ==
    IF res = 0
    THEN IF maxx - minx = 0
         THEN Raise(ValueError("cannot convert float NaN to integer"))
         ELSE Raise(OverflowError("cannot convert float infinity to integer"))
    ELSE LET width == Round(Q(maxx - minx, res))
             height == Round(Q(maxy - miny, res))
         IN  IF width < 0 \/ height < 0
             THEN Raise(ValueError("negative dimensions are not allowed"))
             ELSE Ok(Full(height, width))

\* one row (x_idx, y_idx, window, weight) per point, res # 0
get_points(pts, minx, maxy, rad, wgt, res) ==
    [i \in 1..Len(pts.x) |->
        [x |-> Q(pts.x[i] - minx, res),
         y |-> Q(maxy - pts.y[i], res),
         window |-> Q(rad[i], res),
         weight |-> FromInt(wgt[i])]]

\* the indices a Python slice a:b selects from a sequence of length n
SliceStart(a, n) == IF a < 0 THEN (IF a + n < 0 THEN 0 ELSE a + n)
                    ELSE (IF a > n THEN n ELSE a)
SliceLen(a, b, n) ==
    IF SliceStart(b, n) > SliceStart(a, n)
    THEN SliceStart(b, n) - SliceStart(a, n) ELSE 0

\* the four corners of add_point_kde's window
Window(p) == [minx |-> Round(RSub(p.x, p.window)),
              miny |-> Round(RSub(p.y, p.window)),
              maxx |-> Round(RAdd(p.x, p.window)),
              maxy |-> Round(RAdd(p.y, p.window))]

\* pow(x_idx - x, 2) + pow(y_idx - y, 2) at the centre of cell (row, col)
Distance2(p, row, col) ==
    LET dx == RSub(Q(2 * col + 1, 2), p.x)
        dy == RSub(Q(2 * row + 1, 2), p.y)
    IN  RAdd(RMul(dx, dx), RMul(dy, dy))

\* mutant: the stamp overwrites the cells instead of adding to them
add_point_kde_overwrite(p, arr, k, scaled) ==
    LET w == Window(p)
        rows == IF w.maxy > w.miny THEN w.maxy - w.miny ELSE 0
        cols == IF w.maxx > w.minx THEN w.maxx - w.minx ELSE 0
        r0 == SliceStart(w.miny, arr.height)
        c0 == SliceStart(w.minx, arr.width)
    IN  IF rows = 0 \/ cols = 0
        THEN Raise(ValueError("cannot call vectorize on size 0 inputs unless otypes is set"))
        ELSE Ok([arr EXCEPT !.cells =
                [c \in DOMAIN arr.cells |->
                    IF /\ c[1] >= r0 /\ c[1] < r0 + rows
                       /\ c[2] >= c0 /\ c[2] < c0 + cols
                    THEN kernel_vfunc(k, scaled,
                            Distance2(p, w.miny + (c[1] - r0), w.minx + (c[2] - c0)),
                            p.window, p.weight)
                    ELSE arr.cells[c]]])

\* mutant: the window keeps only the cells that lie wholly within the
\* radius on each axis (ceil and floor in place of round)
add_point_kde_trunc(p, arr, k, scaled) ==
    LET w == [minx |-> -Floor(RSub(p.window, p.x)),
              miny |-> -Floor(RSub(p.window, p.y)),
              maxx |-> Floor(RAdd(p.x, p.window)),
              maxy |-> Floor(RAdd(p.y, p.window))]
        rows == IF w.maxy > w.miny THEN w.maxy - w.miny ELSE 0
        cols == IF w.maxx > w.minx THEN w.maxx - w.minx ELSE 0
        r0 == SliceStart(w.miny, arr.height)
        c0 == SliceStart(w.minx, arr.width)
    IN  IF rows = 0 \/ cols = 0
        THEN Raise(ValueError("cannot call vectorize on size 0 inputs unless otypes is set"))
        ELSE Ok([arr EXCEPT !.cells =
                [c \in DOMAIN arr.cells |->
                    IF /\ c[1] >= r0 /\ c[1] < r0 + rows
                       /\ c[2] >= c0 /\ c[2] < c0 + cols
                    THEN RAdd(arr.cells[c], kernel_vfunc(k, scaled,
                            Distance2(p, w.miny + (c[1] - r0), w.minx + (c[2] - c0)),
                            p.window, p.weight))
                    ELSE arr.cells[c]]])

\* np.ogrid gives max(0, maxy - miny) rows and max(0, maxx - minx) columns
\* of cell centres; np.vectorize refuses an empty input; the in-place add
\* needs the kernel array to broadcast to the slice array[miny:maxy,
\* minx:maxx]: per axis the same length, or length 1.
add_point_kde(p, arr, k, scaled) ==
    LET w == Window(p)
        rows == IF w.maxy > w.miny THEN w.maxy - w.miny ELSE 0
        cols == IF w.maxx > w.minx THEN w.maxx - w.minx ELSE 0
        r0 == SliceStart(w.miny, arr.height)
        c0 == SliceStart(w.minx, arr.width)
        srows == SliceLen(w.miny, w.maxy, arr.height)
        scols == SliceLen(w.minx, w.maxx, arr.width)
    IN  IF rows = 0 \/ cols = 0
        THEN Raise(ValueError("cannot call vectorize on size 0 inputs unless otypes is set"))
        ELSE IF ~(/\ (rows = srows \/ rows = 1)
                  /\ (cols = scols \/ cols = 1))
        THEN Raise(ValueError("operands could not be broadcast together"))
        ELSE Ok([arr EXCEPT !.cells =
                [c \in DOMAIN arr.cells |->
                    IF /\ c[1] >= r0 /\ c[1] < r0 + srows
                       /\ c[2] >= c0 /\ c[2] < c0 + scols
                    THEN RAdd(arr.cells[c], kernel_vfunc(k, scaled,
                            Distance2(p,
                                w.miny + (IF rows = 1 THEN 0 ELSE c[1] - r0),
                                w.minx + (IF cols = 1 THEN 0 ELSE c[2] - c0)),
                            p.window, p.weight))
                    ELSE arr.cells[c]]])

\* calculate_kde's loop from row i on: the array after the stamps, which
\* stops at the first stamp that raises
RECURSIVE calculate_kde(_, _, _, _, _)
calculate_kde(pts, arr, k, scaled, i) ==
    IF i > Len(pts) THEN arr
    ELSE LET r == add_point_kde(pts[i], arr, k, scaled)
         IN  IF r.ok THEN calculate_kde(pts, r.value, k, scaled, i + 1) ELSE arr

---------------------------------------------------------------------------
(* geokde.py: kde, one action per statement *)

RaiseError(e) ==
    /\ pc' = "raised"
    /\ error' = e

\* mutant: any() in place of all()
AnyPoint(pts) == \E i \in DOMAIN pts.geom_type : pts.geom_type[i] = "Point"

\* line 88: all(points.geometry.geom_type == "Point")
AllPoints(pts) == \A i \in DOMAIN pts.geom_type : pts.geom_type[i] = "Point"

\* line 90: kernel in VALID_KERNELS
ValidKernel(k) == \E i \in DOMAIN VALID_KERNELS : VALID_KERNELS[i] = k

CheckGeometries ==
    /\ pc = "check_geometries"
    /\ IF ~AllPoints(points)
       THEN RaiseError(TypeError("all geometries must be points."))
       ELSE pc' = "check_kernel" /\ UNCHANGED error
    /\ UNCHANGED <<points, args, radius, weight, bounds, array, array_points,
                   idx, probe>>

CheckKernel ==
    /\ pc = "check_kernel"
    /\ IF ~ValidKernel(args.kernel)
       THEN RaiseError(ValueError("kernel must be one of VALID_KERNELS"))
       ELSE pc' = "check_scale" /\ UNCHANGED error
    /\ UNCHANGED <<points, args, radius, weight, bounds, array, array_points,
                   idx, probe>>

CheckScale ==
    /\ pc = "check_scale"
    /\ IF ~IsBool(args.scale)
       THEN RaiseError(TypeError("scale must be bool"))
       ELSE pc' = "validate_radius" /\ UNCHANGED error
    /\ UNCHANGED <<points, args, radius, weight, bounds, array, array_points,
                   idx, probe>>

ValidateRadius ==
    /\ pc = "validate_radius"
    /\ LET r == validate_transform(args.radius, "radius", points)
       IN  IF r.ok
           THEN radius' = r.value /\ pc' = "validate_weight" /\ UNCHANGED error
           ELSE RaiseError(r.error) /\ UNCHANGED radius
    /\ UNCHANGED <<points, args, weight, bounds, array, array_points, idx, probe>>

ValidateWeight ==
    /\ pc = "validate_weight"
    /\ LET r == validate_transform(args.weight, "weight", points)
       IN  IF r.ok
           THEN weight' = r.value /\ pc' = "check_resolution" /\ UNCHANGED error
           ELSE RaiseError(r.error) /\ UNCHANGED weight
    /\ UNCHANGED <<points, args, radius, bounds, array, array_points, idx, probe>>

CheckResolution ==
    /\ pc = "check_resolution"
    /\ IF args.resolution > SeqMax(radius)
       THEN RaiseError(ValueError("resolution must be less than radius."))
       ELSE pc' = "adjust_bounds" /\ UNCHANGED error
    /\ UNCHANGED <<points, args, radius, weight, bounds, array, array_points,
                   idx, probe>>

AdjustBounds ==
    /\ pc = "adjust_bounds"
    /\ bounds' = adjust_bounds(total_bounds(points), SeqMax(radius))
    /\ pc' = "create_array"
    /\ UNCHANGED <<points, args, error, radius, weight, array, array_points,
                   idx, probe>>

CreateArray ==
    /\ pc = "create_array"
    /\ LET r == create_array(bounds[1], bounds[2], bounds[3], bounds[4],
                             args.resolution)
       IN  IF r.ok
           THEN array' = r.value /\ pc' = "get_points" /\ UNCHANGED error
           ELSE RaiseError(r.error) /\ UNCHANGED array
    /\ UNCHANGED <<points, args, radius, weight, bounds, array_points, idx, probe>>

GetPoints ==
    /\ pc = "get_points"
    /\ array_points' = get_points(points, bounds[1], bounds[4], radius, weight,
                                  args.resolution)
    /\ idx' = 1
    /\ pc' = "calculate_kde"
    /\ UNCHANGED <<points, args, error, radius, weight, bounds, array, probe>>

\* one iteration of calculate_kde's loop
AddPointKde ==
    /\ pc = "calculate_kde"
    /\ idx <= Len(array_points)
    /\ LET r == add_point_kde(array_points[idx], array, args.kernel,
                              args.scale.n = 1)
       IN  IF r.ok
           THEN array' = r.value /\ idx' = idx + 1 /\ UNCHANGED <<pc, error>>
           ELSE RaiseError(r.error) /\ UNCHANGED <<array, idx>>
    /\ UNCHANGED <<points, args, radius, weight, bounds, array_points, probe>>

\* line 103: return array, bounds
Return ==
    /\ pc = "calculate_kde"
    /\ idx > Len(array_points)
    /\ pc' = "done"
    /\ UNCHANGED <<points, args, error, radius, weight, bounds, array,
                   array_points, idx, probe>>

---------------------------------------------------------------------------
(* test_kernels.py: a kernel function called on its own *)

NoProbe == [kernel |-> "", scaled |-> FALSE, radius |-> Zero, weight |-> Zero,
            d1 |-> Zero, d2 |-> Zero, v0 |-> Zero, v1 |-> Zero, v2 |-> Zero,
            called |-> FALSE]

\* the kernel evaluated at distance 0 and at the distances d1 and d2
KernelCall ==
    /\ pc = "kernel_call"
    /\ ~probe.called
    /\ probe' = [probe EXCEPT
          !.v0 = kernel_vfunc(probe.kernel, probe.scaled, Zero,
                              probe.radius, probe.weight),
          !.v1 = kernel_vfunc(probe.kernel, probe.scaled, RMul(probe.d1, probe.d1),
                              probe.radius, probe.weight),
          !.v2 = kernel_vfunc(probe.kernel, probe.scaled, RMul(probe.d2, probe.d2),
                              probe.radius, probe.weight),
          !.called = TRUE]
    /\ UNCHANGED <<points, args, pc, error, radius, weight, bounds, array,
                   array_points, idx>>

---------------------------------------------------------------------------
(* Inputs *)

Coords == 0..MaxCoord
Radii == -1..MaxRadius
ColumnRadii == {-1, 1, MaxRadius}
Resolutions == -1..MaxRadius
KernelWeights == -1..MaxWeight
Distances == {Q(n, 2) : n \in 0..2 * MaxDistance}
KernelNames == {VALID_KERNELS[i] : i \in DOMAIN VALID_KERNELS}

Column(numeric, values, isnull) ==
    [numeric |-> numeric, values |-> values, isnull |-> isnull]

GeoDataFrame(geoms, xs, ys, cols) ==
    [geom_type |-> geoms, x |-> xs, y |-> ys, columns |-> cols]

Args(r, res, k, w, sc) ==
    [radius |-> r, resolution |-> res, kernel |-> k, weight |-> w, scale |-> sc]

Start(pts, a) ==
    /\ points = pts
    /\ args = a
    /\ pc = "check_geometries"
    /\ error = NoError
    /\ radius = <<>>
    /\ weight = <<>>
    /\ bounds = <<>>
    /\ array = NoArray
    /\ array_points = <<>>
    /\ idx = 0
    /\ probe = NoProbe

\* the records of a dataset listed in the order of their coordinates
Ordered(xs, ys) ==
    \A i \in DOMAIN xs : \A j \in DOMAIN xs :
        i < j => \/ xs[i] < xs[j]
                 \/ xs[i] = xs[j] /\ ys[i] <= ys[j]

\* kde with the default kernel, weight and scale and a scalar radius on
\* every dataset of up to MaxPoints points, its records listed in the order
\* of their coordinates
InitGeometry ==
    \E n \in 1..MaxPoints :
    \E xs \in [1..n -> Coords], ys \in [1..n -> Coords] :
        /\ Ordered(xs, ys)
        /\ \E res \in Resolutions, r \in Radii :
              Start(GeoDataFrame([i \in 1..n |-> "Point"], xs, ys, <<>>),
                    Args(PyNum(r), res, "quartic", PyNum(1), PyBool(FALSE)))

\* kde with the default kernel, weight and scale and a complete numeric
\* "radius" column on every dataset of up to MaxPoints points on the diagonal
InitRadiusColumn ==
    \E n \in 1..MaxPoints :
    \E xs \in [1..n -> Coords], rs \in [1..n -> ColumnRadii] :
    \E res \in Resolutions :
        Start(GeoDataFrame([i \in 1..n |-> "Point"], xs, xs,
                  [c \in {PyStr("radius")} |->
                      Column(TRUE, rs, [i \in 1..n |-> FALSE])]),
              Args(PyStr("radius"), res, "quartic", PyNum(1), PyBool(FALSE)))

\* the columns of the two-record dataset of conftest.py: "radius" and
\* "weight", numeric or of object dtype, complete or with a null in the
\* first record (test_geokde.py), and a column labelled by the number 2
ColumnConfigs == {<<TRUE, FALSE>>, <<TRUE, TRUE>>, <<FALSE, FALSE>>, <<FALSE, TRUE>>}
TestColumns(rc, wc) ==
    (PyStr("radius") :> Column(rc[1], <<2, 1>>, <<rc[2], FALSE>>))
    @@ (PyStr("weight") :> Column(wc[1], <<1, 2>>, <<wc[2], FALSE>>))
    @@ (PyNum(2) :> Column(TRUE, <<1, 1>>, <<FALSE, FALSE>>))

ArgValues == {PyNum(1), PyNum(2), PyStr("radius"), PyStr("weight"),
              PyStr("no_such_column"), PyNone}

\* kde on the two-record dataset with every combination of valid and
\* invalid arguments
InitValidation ==
    \E geoms \in {<<"Point", "Point">>, <<"Point", "Polygon">>,
                  <<"Polygon", "Polygon">>} :
    \E rc \in ColumnConfigs, wc \in ColumnConfigs :
    \E r \in ArgValues, w \in ArgValues, res \in {1, 3} :
    \E k \in KernelNames \cup {"invalid_kernel"} :
    \E sc \in {PyBool(FALSE), PyBool(TRUE), PyStr("invalid_scale"), PyNum(1)} :
        Start(GeoDataFrame(geoms, <<0, 1>>, <<0, 1>>, TestColumns(rc, wc)),
              Args(r, res, k, w, sc))

\* test_adjust_bounds' envelope as a dataset: bounds [-10, -10, 10, 10],
\* radius 10, resolution 1
InitExample ==
    Start(GeoDataFrame(<<"Point", "Point">>, <<-10, 10>>, <<-10, 10>>, <<>>),
          Args(PyNum(10), 1, "quartic", PyNum(1), PyBool(FALSE)))

Init == InitGeometry \/ InitRadiusColumn \/ InitValidation \/ InitExample

Next ==
    \/ CheckGeometries
    \/ CheckKernel
    \/ CheckScale
    \/ ValidateRadius
    \/ ValidateWeight
    \/ CheckResolution
    \/ AdjustBounds
    \/ CreateArray
    \/ GetPoints
    \/ AddPointKde
    \/ Return

Spec == Init /\ [][Next]_vars

InitKernel ==
    /\ points = GeoDataFrame(<<>>, <<>>, <<>>, <<>>)
    /\ args = Args(PyNone, 0, "", PyNone, PyNone)
    /\ pc = "kernel_call"
    /\ error = NoError
    /\ radius = <<>>
    /\ weight = <<>>
    /\ bounds = <<>>
    /\ array = NoArray
    /\ array_points = <<>>
    /\ idx = 0
    /\ \E k \in KernelNames, sc \in BOOLEAN :
       \E r \in Radii, w \in KernelWeights, d1 \in Distances, d2 \in Distances :
          probe = [NoProbe EXCEPT !.kernel = k, !.scaled = sc,
                                  !.radius = FromInt(r), !.weight = FromInt(w),
                                  !.d1 = d1, !.d2 = d2]

NextKernel == KernelCall

SpecKernel == InitKernel /\ [][NextKernel]_vars

---------------------------------------------------------------------------
(* What the claims speak of, stated on the inputs and the visible state *)

CheckPcs == <<"check_geometries", "check_kernel", "check_scale",
              "validate_radius", "validate_weight", "check_resolution">>
ComputePcs == {"adjust_bounds", "create_array", "get_points", "calculate_kde", "done"}

HasNonPoint == \E i \in DOMAIN points.geom_type : points.geom_type[i] # "Point"
KernelUnsupported == args.kernel \notin {"epanechnikov", "quartic", "triweight"}
ScaleNotBoolean == args.scale.t # "bool"
NamesColumn(arg) == arg \in DOMAIN points.columns
ColumnHasNull(arg) == \E i \in DOMAIN points.columns[arg].isnull :
                          points.columns[arg].isnull[i]
ColumnNumeric(arg) == points.columns[arg].numeric
Unresolvable(arg) ==
    IF NamesColumn(arg) THEN ~ColumnNumeric(arg) \/ ColumnHasNull(arg)
    ELSE arg.t \notin {"num", "bool"}
ResolvedValues(arg) ==
    IF NamesColumn(arg) THEN points.columns[arg].values
    ELSE [i \in DOMAIN points.x |-> arg.n]
ResolutionTooCoarse ==
    \A i \in DOMAIN points.x : args.resolution > ResolvedValues(args.radius)[i]

\* the first of the six checks (radius and weight counted apart) that the
\* input fails, 0 when it passes them all
FirstFailing ==
    IF HasNonPoint THEN 1
    ELSE IF KernelUnsupported THEN 2
    ELSE IF ScaleNotBoolean THEN 3
    ELSE IF Unresolvable(args.radius) THEN 4
    ELSE IF Unresolvable(args.weight) THEN 5
    ELSE IF ResolutionTooCoarse THEN 6
    ELSE 0

ResolverMessages(name) ==
    {name \o " column must be numeric dtype.",
     name \o " column must be complete.",
     name \o " must correspond to a GeoDataFrame column or be int or float."}

\* the error is the one check n raises: TypeMismatch is TypeError,
\* InvalidArgument and MissingData are ValueError
ErrorOfCheck(n) ==
    CASE n = 1 -> error = [type |-> "TypeError", msg |-> "all geometries must be points."]
      [] n = 2 -> error = [type |-> "ValueError", msg |-> "kernel must be one of VALID_KERNELS"]
      [] n = 3 -> error = [type |-> "TypeError", msg |-> "scale must be bool"]
      [] n = 4 -> error.msg \in ResolverMessages("radius")
      [] n = 5 -> error.msg \in ResolverMessages("weight")
      [] n = 6 -> error = [type |-> "ValueError", msg |-> "resolution must be less than radius."]

\* C1: an input that fails some of the checks geometries, kernel, scale,
\* radius, weight, resolution is refused with the error of the first check it
\* fails in this order, kde never gets past that check, and no grid is
\* allocated unless all checks have passed.
C1_ValidationOrder ==
    /\ FirstFailing # 0 =>
          /\ pc \in {CheckPcs[i] : i \in 1..FirstFailing} \cup {"raised"}
          /\ pc = "raised" => ErrorOfCheck(FirstFailing)
          /\ ~array.allocated
    /\ array.allocated => FirstFailing = 0 /\ pc \in ComputePcs \cup {"raised"}

\* C1 witness: an input that fails several checks, refused with the error
\* of the first
C1_Witness ==
    /\ pc = "raised"
    /\ HasNonPoint /\ KernelUnsupported /\ ScaleNotBoolean
    /\ Unresolvable(args.radius)
    /\ error.type = "TypeError" /\ error.msg = "all geometries must be points."

\* the resolver has been called for radius / for weight
RadiusResolverCalled ==
    /\ ~HasNonPoint /\ ~KernelUnsupported /\ ~ScaleNotBoolean
    /\ pc \notin {CheckPcs[i] : i \in 1..4}
WeightResolverCalled ==
    /\ RadiusResolverCalled /\ ~Unresolvable(args.radius)
    /\ pc \notin {CheckPcs[i] : i \in 1..5}

MissingData(name) ==
    /\ pc = "raised"
    /\ error = [type |-> "ValueError", msg |-> name \o " column must be complete."]
TypeMismatch(name) ==
    /\ pc = "raised"
    /\ error = [type |-> "TypeError", msg |-> name \o " column must be numeric dtype."]

\* the claim as written, for one argument
ColumnRuleAsClaimed(arg, name, resolved) ==
    NamesColumn(arg) =>
        IF ColumnHasNull(arg) THEN MissingData(name)
        ELSE IF ~ColumnNumeric(arg) THEN TypeMismatch(name)
        ELSE resolved = points.columns[arg].values /\ Len(resolved) = Len(points.x)

\* the rule the code follows, for one argument
ColumnRule(arg, name, resolved) ==
    NamesColumn(arg) =>
        IF ~ColumnNumeric(arg) THEN TypeMismatch(name)
        ELSE IF ColumnHasNull(arg) THEN MissingData(name)
        ELSE resolved = points.columns[arg].values /\ Len(resolved) = Len(points.x)

\* C4 as claimed: a named column with any null entry fails with MissingData
\* whatever its type, a complete non-numeric one with TypeMismatch, and any
\* other is returned as it is.
C4_AsClaimed ==
    /\ RadiusResolverCalled => ColumnRuleAsClaimed(args.radius, "radius", radius)
    /\ WeightResolverCalled => ColumnRuleAsClaimed(args.weight, "weight", weight)

\* C4 amended: a named column that is non-numeric fails with TypeMismatch
\* whether or not it has null entries, a numeric one with a null entry fails
\* with MissingData, and any other is returned as it is, also when the
\* argument is a number that could have been a scalar.
C4_ColumnRule ==
    /\ RadiusResolverCalled => ColumnRule(args.radius, "radius", radius)
    /\ WeightResolverCalled => ColumnRule(args.weight, "weight", weight)

\* C4 witness: the radius column is non-numeric and has a null entry, and
\* the resolver has refused it
C4_Witness ==
    /\ RadiusResolverCalled
    /\ NamesColumn(args.radius)
    /\ ~ColumnNumeric(args.radius) /\ ColumnHasNull(args.radius)
    /\ pc = "raised" /\ error.type = "TypeError"

Envelope ==
    LET X == {points.x[i] : i \in DOMAIN points.x}
        Y == {points.y[i] : i \in DOMAIN points.y}
    IN  <<CHOOSE m \in X : \A v \in X : m <= v, CHOOSE m \in Y : \A v \in Y : m <= v,
          CHOOSE m \in X : \A v \in X : v <= m, CHOOSE m \in Y : \A v \in Y : v <= m>>
MaxRadiusOf(rad) ==
    CHOOSE m \in {rad[i] : i \in DOMAIN rad} : \A i \in DOMAIN rad : rad[i] <= m
PaddedBounds ==
    LET e == Envelope
        r == MaxRadiusOf(radius)
    IN  <<e[1] - r, e[2] - r, e[3] + r, e[4] + r>>

\* C5: the grid kde allocates has round((maxy - miny) / resolution) rows
\* and round((maxx - minx) / resolution) columns, for the envelope of the
\* points padded by the largest radius on all four sides, and is zero-filled
\* when it is allocated.
C5_GridShape ==
    array.allocated =>
        LET b == PaddedBounds
        IN  /\ bounds = b
            /\ array.height = Round(Q(b[4] - b[2], args.resolution))
            /\ array.width = Round(Q(b[3] - b[1], args.resolution))
            /\ DOMAIN array.cells = (0..array.height - 1) \X (0..array.width - 1)
            /\ pc = "get_points" => \A c \in DOMAIN array.cells : array.cells[c] = Zero

\* C5 witness: envelope [-10, -10, 10, 10], radius 10, resolution 1 gives
\* bounds [-20, -20, 20, 20] and a zero grid of shape (40, 40)
C5_Witness ==
    /\ pc = "get_points"
    /\ Envelope = <<-10, -10, 10, 10>> /\ args.resolution = 1
    /\ bounds = <<-20, -20, 20, 20>>
    /\ array.allocated /\ array.height = 40 /\ array.width = 40

\* C6: on return, width * resolution = maxx - minx and
\* height * resolution = maxy - miny for the returned bounds and grid.
C6_BoundsMatchGrid ==
    pc = "done" =>
        /\ array.width * args.resolution = bounds[3] - bounds[1]
        /\ array.height * args.resolution = bounds[4] - bounds[2]

\* the grid of a call with this resolution and these radii would have no
\* area
Degenerate ==
    \/ args.resolution <= 0
    \/ /\ FirstFailing = 0
       /\ LET e == Envelope
              r == MaxRadiusOf(ResolvedValues(args.radius))
          IN  \/ Round(Q(e[3] - e[1] + 2 * r, args.resolution)) <= 0
              \/ Round(Q(e[4] - e[2] + 2 * r, args.resolution)) <= 0

\* C7: a call that passes the other checks with a non-positive resolution,
\* or with a radius and resolution that give a grid without area, is
\* refused with a configuration error before any grid is allocated; no grid
\* is returned.  (The code has no configuration error of its own; ValueError
\* is taken for it.)
C7_DegenerateRefused ==
    (FirstFailing = 0 /\ Degenerate) =>
        /\ pc # "done"
        /\ ~array.allocated
        /\ pc = "raised" => error.type = "ValueError"

WindowInGrid(p) ==
    LET minx == Round(RSub(p.x, p.window))
        maxx == Round(RAdd(p.x, p.window))
        miny == Round(RSub(p.y, p.window))
        maxy == Round(RAdd(p.y, p.window))
    IN  /\ 0 <= minx /\ minx <= maxx /\ maxx <= array.width
        /\ 0 <= miny /\ miny <= maxy /\ maxy <= array.height

\* C9: once kde has passed validation and projected the points, every
\* point's window rectangle lies inside the grid:
\* 0 <= round(x - window) <= round(x + window) <= width, and the same for y
\* and height.
C9_WindowsInGrid ==
    array_points # <<>> =>
        \A i \in DOMAIN array_points : WindowInGrid(array_points[i])

\* the squared distance from a projected point to the centre
\* (col + 0.5, row + 0.5) of a cell
CentreDistance2(p, c) ==
    LET dx == RSub(RAdd(FromInt(c[2]), Half), p.x)
        dy == RSub(RAdd(FromInt(c[1]), Half), p.y)
    IN  RAdd(RMul(dx, dx), RMul(dy, dy))

Contribution(i, c) ==
    kernel_vfunc(args.kernel, args.scale.n = 1,
                 CentreDistance2(array_points[i], c),
                 array_points[i].window, array_points[i].weight)

RECURSIVE SumOfContributions(_, _)
SumOfContributions(n, c) ==
    IF n = 0 THEN Zero
    ELSE RAdd(SumOfContributions(n - 1, c), Contribution(n, c))

\* C10: when kde returns, every cell of the grid holds the sum over all
\* points of the kernel at the distance from the point to the centre of the
\* cell: the window rectangles leave out no cell that a point reaches.
C10_EveryCellIsFullSum ==
    pc = "done" =>
        \A c \in DOMAIN array.cells :
            array.cells[c] = SumOfContributions(Len(array_points), c)

\* C10 witness: a returned grid with a point whose window edge falls
\* strictly between a cell edge and a cell centre, and a cell that two
\* points reach
C10_Witness ==
    /\ pc = "done"
    /\ \E i \in DOMAIN array_points :
          RSub(array_points[i].x, array_points[i].window)[2] = 3
    /\ \E c \in DOMAIN array.cells : \E i, j \in DOMAIN array_points :
          i # j /\ Contribution(i, c) # Zero /\ Contribution(j, c) # Zero

Injective(f) == \A i, j \in DOMAIN f : i # j => f[i] # f[j]
Orders(n) == {f \in [1..n -> 1..n] : Injective(f)}

\* the grid a point leaves when it is accumulated alone into a zero grid of
\* the shape of kde's
Alone(i) ==
    add_point_kde(array_points[i], Full(array.height, array.width),
                  args.kernel, args.scale.n = 1).value.cells

RECURSIVE SumAlone(_, _, _)
SumAlone(alone, n, c) ==
    IF n = 0 THEN Zero ELSE RAdd(SumAlone(alone, n - 1, c), alone[n][c])

\* C3: after the accumulator has processed the first points, every cell
\* holds the sum of what each of them leaves there when accumulated alone
\* into a zero grid, and the finished grid is the one every processing order
\* of the points gives.
C3_Additive ==
    /\ pc \in {"calculate_kde", "done"} =>
          LET alone == [i \in 1..idx - 1 |-> Alone(i)]
          IN  \A c \in DOMAIN array.cells :
                  array.cells[c] = SumAlone(alone, idx - 1, c)
    /\ pc = "done" =>
          \A f \in Orders(Len(array_points)) :
              calculate_kde([i \in DOMAIN array_points |-> array_points[f[i]]],
                            Full(array.height, array.width),
                            args.kernel, args.scale.n = 1, 1) = array

\* C3 witness: two different points have been processed and both have
\* left something in one cell
C3_Witness ==
    /\ pc = "done"
    /\ \E i, j \in DOMAIN array_points :
          /\ i < j /\ array_points[i] # array_points[j]
          /\ \E c \in DOMAIN array.cells :
                /\ Alone(i)[c] # Zero /\ Alone(j)[c] # Zero
                /\ array.cells[c] = RAdd(Alone(i)[c], Alone(j)[c])

\* distance d is at least the radius
AtOrBeyond(d, r) == RLe(r, d)

\* C2: each of the six kernels returns exactly 0 at every distance that is
\* equal to or greater than the radius, for every radius and weight.
C2_ZeroOutsideSupport ==
    probe.called =>
        /\ AtOrBeyond(probe.d1, probe.radius) => probe.v1 = Zero
        /\ AtOrBeyond(probe.d2, probe.radius) => probe.v2 = Zero

\* C2 witness: a kernel called at distance = radius > 0 with a weight
\* other than 0, and beyond the radius
C2_Witness ==
    /\ probe.called
    /\ probe.radius # Zero /\ RLt(Zero, probe.radius) /\ probe.weight # Zero
    /\ probe.d1 = probe.radius /\ probe.v1 = Zero
    /\ RLt(probe.radius, probe.d2) /\ probe.v2 = Zero

\* the raw kernel does not increase from d1 to d2 and is the weight at 0
Monotone ==
    (RLe(probe.d1, probe.d2) /\ RLe(probe.d2, probe.radius)) =>
        /\ RLe(probe.v2, probe.v1)
        /\ RLe(probe.v1, probe.v0)
        /\ probe.v0 = probe.weight

\* C8 as claimed: for every radius and weight that kde accepts, a raw
\* kernel is non-increasing in the distance on [0, radius] and is the
\* weight at distance 0.
C8_AsClaimed ==
    (probe.called /\ ~probe.scaled) => Monotone

\* C8 amended: for every radius > 0 and every weight >= 0, a raw kernel is
\* non-increasing in the distance on [0, radius] and is the weight at
\* distance 0.
C8_MonotoneForPositive ==
    (/\ probe.called /\ ~probe.scaled
     /\ RLt(Zero, probe.radius) /\ RLe(Zero, probe.weight)) => Monotone

\* C8 witness: a raw kernel with a positive weight that strictly decreases
\* between two distances inside the radius
C8_Witness ==
    /\ probe.called /\ ~probe.scaled
    /\ RLt(Zero, probe.weight)
    /\ RLt(Zero, probe.d1) /\ RLt(probe.d1, probe.d2) /\ RLt(probe.d2, probe.radius)
    /\ RLt(probe.v2, probe.v1) /\ RLt(probe.v1, probe.v0) /\ RLt(Zero, probe.v2)

====
